---- MODULE Spec2Model ----
(***************************************************************************)
(* A model of winsetup.py: the provisioning pipeline run by main()         *)
(* (privilege check, requests bootstrap, argument parsing, Chocolatey      *)
(* detection/bootstrap, QEMU install, ISO acquisition, disk preparation,   *)
(* command assembly, launch) over a host whose filesystem, registry and    *)
(* installed packages persist from one run of the script to the next.      *)
(***************************************************************************)
EXTENDS Integers, Sequences, FiniteSets, TLC

\* ------------------------------------------------------------------ bounds

\* Number of lines of the download page.
MaxLines == 2
\* Largest CPU count of the configurations the command builder is tried on.
MaxCpus == 4
\* Largest disk size, in GB, the qemu-img call is tried on (and the smallest,
\* negated: argparse's int accepts a sign).
MaxSizeGb == 128

\* --------------------------------------------------------------- constants

\* Python's None, kept apart from every string the program handles.
NONE == "<None>"

QEMU_EXE == "qemu-system-x86_64.exe"
QEMU_IMG == "qemu-img.exe"
QEMU_CHOCOLATEY_NAME == "qemu"
CHOCOLATEY_PATH == "C:\\ProgramData\\chocolatey\\bin"
WINDOWS_ISO_DOWNLOAD_PAGE == "https://www.microsoft.com/en-us/software-download/windows11"

\* The process's working directory and the host's environment variables.
CWD == "C:\\work"
ENV_LocalAppData == "C:\\Users\\u\\AppData\\Local"
ENV_SystemDrive == "C:"
\* The one directory on the search path when a run starts.
SYS_DIR == "C:\\Windows\\system32"
\* The value the registry holds under ChocolateyInstall when it holds one.
REG_INSTALL_DIR == "C:\\tools\\chocolatey"

\* -------------------------------------------------------- strings and paths

Contains(s, sub) ==
    \E i \in 1..(Len(s) - Len(sub) + 1) : SubSeq(s, i, i + Len(sub) - 1) = sub

EndsWith(s, suf) ==
    /\ Len(s) >= Len(suf)
    /\ SubSeq(s, Len(s) - Len(suf) + 1, Len(s)) = suf

\* Positions of s holding a path separator.
SepPositions(s) == {i \in 1..Len(s) : SubSeq(s, i, i) \in {"/", "\\"}}

Max(S) == CHOOSE m \in S : \A x \in S : x <= m
Min(S) == CHOOSE m \in S : \A x \in S : m <= x

\* str(Path(s)) on Windows: forward slashes become backslashes.
RECURSIVE PathStr(_)
PathStr(s) ==
    IF Len(s) = 0 THEN ""
    ELSE (IF SubSeq(s, 1, 1) = "/" THEN "\\" ELSE SubSeq(s, 1, 1))
         \o PathStr(SubSeq(s, 2, Len(s)))

\* Path(a) / b: no separator is added after a bare drive or a separator.
PathJoin(a, b) ==
    IF EndsWith(a, ":") \/ EndsWith(a, "\\") THEN a \o b
    ELSE a \o "\\" \o b

\* Path(s).name: the last component.
PathName(s) ==
    IF SepPositions(s) = {} THEN s
    ELSE SubSeq(s, Max(SepPositions(s)) + 1, Len(s))

\* str(Path(s).parent): everything before the last separator, "." when
\* there is none.
PathParent(s) ==
    IF SepPositions(s) = {} THEN "."
    ELSE PathStr(SubSeq(s, 1, Max(SepPositions(s)) - 1))

DEFAULT_DISK_PATH == PathJoin(CWD, "win11_vm.qcow2")

Digit(d) ==
    CASE d = 0 -> "0" [] d = 1 -> "1" [] d = 2 -> "2" [] d = 3 -> "3"
      [] d = 4 -> "4" [] d = 5 -> "5" [] d = 6 -> "6" [] d = 7 -> "7"
      [] d = 8 -> "8" [] d = 9 -> "9"

RECURSIVE NatStr(_)
NatStr(n) == IF n < 10 THEN Digit(n) ELSE NatStr(n \div 10) \o Digit(n % 10)

\* Python's str(int) and the f-string formatting of an int.
str(n) == IF n < 0 THEN "-" \o NatStr(0 - n) ELSE NatStr(n)

DigitChars == {"0", "1", "2", "3", "4", "5", "6", "7", "8", "9"}

DigitVal(c) == CHOOSE d \in 0..9 : Digit(d) = c

IsDigits(s) ==
    /\ Len(s) > 0
    /\ \A i \in 1..Len(s) : SubSeq(s, i, i) \in DigitChars

RECURSIVE DigitsVal(_)
DigitsVal(s) ==
    IF Len(s) = 0 THEN 0
    ELSE 10 * DigitsVal(SubSeq(s, 1, Len(s) - 1)) + DigitVal(SubSeq(s, Len(s), Len(s)))

\* argparse's type=int: int(s) for an optionally signed run of digits,
\* a ValueError (here: not an int literal) otherwise.
IsIntLiteral(s) ==
    \/ IsDigits(s)
    \/ /\ Len(s) > 1
       /\ SubSeq(s, 1, 1) \in {"-", "+"}
       /\ IsDigits(SubSeq(s, 2, Len(s)))

int(s) ==
    IF SubSeq(s, 1, 1) = "-" THEN 0 - DigitsVal(SubSeq(s, 2, Len(s)))
    ELSE IF SubSeq(s, 1, 1) = "+" THEN DigitsVal(SubSeq(s, 2, Len(s)))
    ELSE DigitsVal(s)

\* Python truthiness of an Optional[str]: None and "" are falsy.
Truthy(s) == s # NONE /\ s # ""

\* ------------------------------------------------------------------- state

VARIABLES
    \* The host, which outlives a run of the script:
    fs,                 \* the paths at which a file exists
    registry,           \* HKLM\SOFTWARE\Chocolatey ChocolateyInstall, or NONE
    chocoWorks,         \* whether a choco that is found exits 0 on "choco -v"
    \* The process of one run:
    pc,                 \* the statement of main() the run is at
    exit_status,        \* {} while running, {code} once the process ended
    environ_PATH,       \* os.environ["PATH"], a sequence of directories
    args,               \* the argparse namespace (args.iso is reassigned)
    resp,               \* fetch_latest_windows_iso's page response (a local)
    iso_url,            \* fetch_latest_windows_iso's iso_url (a local)
    disk_path,          \* main's disk_path
    cmd,                \* main's cmd
    trace               \* what the run did so far, in order

host == <<fs, registry, chocoWorks>>
vars == <<fs, registry, chocoWorks,
          pc, exit_status, environ_PATH, args, resp, iso_url, disk_path, cmd, trace>>

\* One effect of the run: the function of winsetup.py that performed it, the
\* operation, its arguments and its outcome.
Event(fn, op, argv, out) == [fn |-> fn, op |-> op, argv |-> argv, out |-> out]

\* ------------------------------------------------------- Chocolatey lookup

\* shutil.which / the search CreateProcess does for a bare executable name:
\* the first directory of PATH holding it, or NONE.
which(PATH, files, exe) ==
    LET hits == {i \in 1..Len(PATH) : PathJoin(PATH[i], exe) \in files}
    IN  IF hits = {} THEN NONE ELSE PathJoin(PATH[Min(hits)], exe)

\* subprocess.run(["choco", "-v"]): the return code, or FileNotFoundError.
choco_v(PATH, files, works) ==
    IF which(PATH, files, "choco.exe") = NONE THEN "FileNotFoundError"
    ELSE IF works THEN "0" ELSE "1"

get_choco_path_from_registry(reg, files) ==
    IF reg = NONE THEN NONE
    ELSE LET choco_path == PathJoin(PathJoin(PathStr(reg), "bin"), "choco.exe")
         IN  IF choco_path \in files THEN choco_path ELSE NONE

fallback_paths ==
    << PathStr("C:/ProgramData/chocolatey/bin/choco.exe"),
       PathJoin(PathJoin(PathJoin(PathStr(ENV_LocalAppData), "choco"), "bin"), "choco.exe"),
       PathJoin(PathJoin(PathJoin(PathStr(ENV_SystemDrive), "choco"), "bin"), "choco.exe") >>

\* The slip of trying the well-known places before the registry.
detect_choco_fallback_first(PATH, files, reg, works) ==
    IF choco_v(PATH, files, works) = "0" THEN "choco"
    ELSE LET reg_path == get_choco_path_from_registry(reg, files)
             found == {i \in 1..Len(fallback_paths) : fallback_paths[i] \in files}
         IN  IF found # {} THEN fallback_paths[Min(found)]
             ELSE IF Truthy(reg_path) THEN reg_path
             ELSE NONE

detect_choco(PATH, files, reg, works) ==
    IF choco_v(PATH, files, works) = "0" THEN "choco"
    ELSE LET reg_path == get_choco_path_from_registry(reg, files)
             found == {i \in 1..Len(fallback_paths) : fallback_paths[i] \in files}
         IN  IF Truthy(reg_path) THEN reg_path
             ELSE IF found # {} THEN fallback_paths[Min(found)]
             ELSE NONE

\* The effect detect_choco leaves in the trace: its one subprocess call.
detect_choco_events(caller, PATH, files, works) ==
    << Event(caller, "subprocess.run", <<"choco", "-v">>, choco_v(PATH, files, works)) >>

\* ------------------------------------------------------ process exit codes

\* sys.exit("message"): the message goes to stderr, the status is 1.
EXIT_SYS_EXIT_MESSAGE == 1
\* argparse's parser.error(): usage goes to stderr, the status is 2.
EXIT_ARGPARSE_ERROR == 2
\* main() returning: the status is 0.
EXIT_MAIN_RETURNED == 0
\* The slip of swallowing an exception in main(), which then returns.
exit_exception_swallowed == EXIT_MAIN_RETURNED
\* An exception nothing catches: the traceback goes to stderr, the status is 1.
EXIT_UNCAUGHT_EXCEPTION == 1

\* The process ends with status code, having logged evts.
Exit(evts, code, label) ==
    /\ trace' = trace \o evts
    /\ pc' = label
    /\ exit_status' = {code}

\* The run goes on at label, having logged evts.
Goto(evts, label) ==
    /\ trace' = trace \o evts
    /\ pc' = label
    /\ UNCHANGED exit_status

\* ---------------------------------------------------------- command line

NoArgs == [ram |-> NONE, disk_size |-> 0, cpus |-> 0, iso |-> NONE,
           disk_image |-> NONE, net |-> NONE]

\* What the user typed for each option, NONE for an option left out.
Argv(ram, disk_size, cpus, iso, disk_image, net) ==
    [ram |-> ram, disk_size |-> disk_size, cpus |-> cpus, iso |-> iso,
     disk_image |-> disk_image, net |-> net]

Argvs ==
    { Argv("8G", NONE, "4", "C:\\win.iso", "D:\\disk.qcow2", "user"),
      Argv("4096M", "60", NONE, NONE, NONE, "bridge"),
      Argv("8G", NONE, NONE, "", "", NONE),
      Argv("abc", NONE, NONE, "C:\\win.iso", NONE, "bridge"),
      Argv("8G", NONE, "0", "C:\\win.iso", NONE, NONE),
      Argv("8G", "-5", NONE, "C:\\win.iso", "D:/disk.qcow2", NONE),
      Argv(NONE, NONE, NONE, "C:\\win.iso", NONE, NONE),
      Argv("8G", NONE, "four", "C:\\win.iso", NONE, NONE),
      Argv("8G", "6O", NONE, "C:\\win.iso", NONE, NONE),
      Argv("8G", NONE, NONE, "C:\\win.iso", NONE, "nat") }

\* argparse rejects: --ram missing, a --disk-size or --cpus that int() refuses,
\* a --net outside its choices.
parse_args_error(argv) ==
    \/ argv.ram = NONE
    \/ argv.disk_size # NONE /\ ~IsIntLiteral(argv.disk_size)
    \/ argv.cpus # NONE /\ ~IsIntLiteral(argv.cpus)
    \/ argv.net # NONE /\ argv.net \notin {"user", "bridge"}

parse_args(argv) ==
    [ram |-> argv.ram,
     disk_size |-> IF argv.disk_size = NONE THEN 60 ELSE int(argv.disk_size),
     cpus |-> IF argv.cpus = NONE THEN 4 ELSE int(argv.cpus),
     iso |-> argv.iso,
     disk_image |-> argv.disk_image,
     net |-> IF argv.net = NONE THEN "user" ELSE argv.net]

\* -------------------------------------------------------- command assembly

\* The slip of testing for the other network mode.
build_qemu_command_net_swapped(a, disk) ==
    LET netdev ==
            IF a.net = "bridge"
            THEN <<"-netdev", "user,id=net0", "-device", "e1000,netdev=net0">>
            ELSE <<"-netdev", "bridge,id=net0", "-device", "e1000,netdev=net0">>
    IN  << QEMU_EXE,
           "-m", a.ram,
           "-smp", str(a.cpus),
           "-drive", "file=" \o disk \o ",format=qcow2",
           "-cdrom", a.iso,
           "-boot", "order=d",
           "-cpu", "host,hv_relaxed,hv_vapic,hv_spinlocks=0x1fff",
           "-machine", "type=pc,accel=tcg",
           "-vga", "std",
           "-usb", "-device", "usb-tablet" >> \o netdev

\* The slip of handing the ISO over as a second drive.
build_qemu_command_iso_as_drive(a, disk) ==
    LET netdev ==
            IF a.net = "user"
            THEN <<"-netdev", "user,id=net0", "-device", "e1000,netdev=net0">>
            ELSE <<"-netdev", "bridge,id=net0", "-device", "e1000,netdev=net0">>
    IN  << QEMU_EXE,
           "-m", a.ram,
           "-smp", str(a.cpus),
           "-drive", "file=" \o disk \o ",format=qcow2",
           "-drive", "file=" \o a.iso \o ",media=cdrom",
           "-boot", "order=d",
           "-cpu", "host,hv_relaxed,hv_vapic,hv_spinlocks=0x1fff",
           "-machine", "type=pc,accel=tcg",
           "-vga", "std",
           "-usb", "-device", "usb-tablet" >> \o netdev

build_qemu_command(a, disk) ==
    LET netdev ==
            IF a.net = "user"
            THEN <<"-netdev", "user,id=net0", "-device", "e1000,netdev=net0">>
            ELSE <<"-netdev", "bridge,id=net0", "-device", "e1000,netdev=net0">>
    IN  << QEMU_EXE,
           "-m", a.ram,
           "-smp", str(a.cpus),
           "-drive", "file=" \o disk \o ",format=qcow2",
           "-cdrom", a.iso,
           "-boot", "order=d",
           "-cpu", "host,hv_relaxed,hv_vapic,hv_spinlocks=0x1fff",
           "-machine", "type=pc,accel=tcg",
           "-vga", "std",
           "-usb", "-device", "usb-tablet" >> \o netdev

\* ------------------------------------------------------------ ISO download

NoResp == [status |-> NONE, lines |-> <<>>]

L_PLAIN == "<p>Download Windows 11 Disk Image</p>"
L_DECOY == "<a href=\"http://software-download.microsoft.com/db/Win11.iso\">"
L_GOOD_A == "<a href=\"https://software-download.microsoft.com/db/Win11_x64.iso\">A</a>"
L_GOOD_B == "<a href=\"https://software-download.microsoft.com/pr/Win11_x64.iso\">B</a>"

Lines == {L_PLAIN, L_DECOY, L_GOOD_A, L_GOOD_B}

\* The pages the server may return: up to MaxLines lines.
Pages == UNION {[1..n -> Lines] : n \in 0..MaxLines}

ISO_HREF == "href=\"https://software-download.microsoft.com/"

\* re.search(r'href="(https://software-download\.microsoft\.com/[^"]+\.iso)"',
\* line), from position p: [^"]+ takes no quote, so the closing quote is the
\* first quote after the prefix; at least one character stands between the
\* prefix and ".iso". The position of the closing quote, 0 for no match at p.
re_match_at(line, p) ==
    LET s == p + Len(ISO_HREF)
        quotes == {i \in s..Len(line) : SubSeq(line, i, i) = "\""}
    IN  IF s - 1 > Len(line) THEN 0
        ELSE IF SubSeq(line, p, s - 1) # ISO_HREF THEN 0
        ELSE IF quotes = {} THEN 0
        ELSE IF Min(quotes) < s + 5 THEN 0
        ELSE IF SubSeq(line, Min(quotes) - 4, Min(quotes) - 1) # ".iso" THEN 0
        ELSE Min(quotes)

\* match.group(1) of the leftmost match, NONE when nothing matches.
re_search(line) ==
    LET starts == {p \in 1..Len(line) : re_match_at(line, p) > 0}
    IN  IF starts = {} THEN NONE
        ELSE SubSeq(line, Min(starts) + 6, re_match_at(line, Min(starts)) - 1)

\* The line test of the scan loop.
line_matches(line) ==
    /\ Contains(line, "software-download")
    /\ Contains(line, "iso")
    /\ Contains(line, "href")
    /\ re_search(line) # NONE

\* What the loop body makes of each line the server may send: the URL it
\* extracts, NONE when it moves on to the next line.
LineUrl == [l \in Lines |-> IF line_matches(l) THEN re_search(l) ELSE NONE]

\* The for loop over resp.text.splitlines(): the first match, or NONE.
scan_iso_url(lines) ==
    LET hits == {i \in 1..Len(lines) : LineUrl[lines[i]] # NONE}
    IN  IF hits = {} THEN NONE ELSE LineUrl[lines[Min(hits)]]

\* -------------------------------------------------------------------- Init

REG_CHOCO == PathJoin(PathJoin(REG_INSTALL_DIR, "bin"), "choco.exe")
SYS_CHOCO == PathJoin(SYS_DIR, "choco.exe")
SYS_QEMU == {PathJoin(SYS_DIR, QEMU_EXE), PathJoin(SYS_DIR, QEMU_IMG)}

Host(files, reg, works) == [fs |-> files, registry |-> reg, chocoWorks |-> works]

\* The hosts a first run may meet. Chocolatey is absent; or on the search
\* path and working; or on the search path but broken, with a registry entry
\* and the last well-known place both good; or only at the last two
\* well-known places, the registry entry stale. QEMU is on the search path
\* or nowhere.
InitHosts ==
    { Host(c.fs \cup q, c.registry, c.chocoWorks) :
        c \in { Host({}, NONE, TRUE),
                Host({SYS_CHOCO}, NONE, TRUE),
                Host({SYS_CHOCO, REG_CHOCO, fallback_paths[3]}, REG_INSTALL_DIR, FALSE),
                Host({fallback_paths[2], fallback_paths[3]}, REG_INSTALL_DIR, TRUE) },
        q \in {{}, SYS_QEMU} }

Init ==
    /\ \E h \in InitHosts :
        /\ fs = h.fs
        /\ registry = h.registry
        /\ chocoWorks = h.chocoWorks
    /\ pc = "ensure_admin"
    /\ exit_status = {}
    /\ environ_PATH = <<SYS_DIR>>
    /\ args = NoArgs
    /\ resp = NoResp
    /\ iso_url = NONE
    /\ disk_path = NONE
    /\ cmd = <<>>
    /\ trace = <<>>

\* ------------------------------------------------------------ control flow

\* The slip of preparing the disk before the image is acquired.
main_next_disk_first(stmt) ==
    CASE stmt = "ensure_admin" -> "ensure_requests"
      [] stmt = "ensure_requests" -> "parse_args"
      [] stmt = "parse_args" -> "ensure_toolchain"
      [] stmt = "ensure_toolchain" -> "create_disk_image"
      [] stmt = "create_disk_image" -> "iso"
      [] stmt = "iso" -> "build_qemu_command"
      [] stmt = "build_qemu_command" -> "launch"
      [] stmt = "launch" -> "done"

\* main(): the statement that follows stmt when stmt returns.
main_next(stmt) ==
    CASE stmt = "ensure_admin" -> "ensure_requests"
      [] stmt = "ensure_requests" -> "parse_args"
      [] stmt = "parse_args" -> "ensure_toolchain"
      [] stmt = "ensure_toolchain" -> "iso"
      [] stmt = "iso" -> "create_disk_image"
      [] stmt = "create_disk_image" -> "build_qemu_command"
      [] stmt = "build_qemu_command" -> "launch"
      [] stmt = "launch" -> "done"

\* The slip of leaving check=True out: no return code raises.
check_left_out(rc) == FALSE

\* subprocess.run(..., check=True) raises CalledProcessError on a non-zero
\* return code; nothing in winsetup.py catches it outside ensure_requests.
check_raises(rc) == rc # "0"

\* ----------------------------------------------------------------- actions

\* The script is started again on the same host, in a fresh process.
rerun ==
    /\ pc \in {"done", "failed"}
    /\ pc' = "ensure_admin"
    /\ exit_status' = {}
    /\ environ_PATH' = <<SYS_DIR>>
    /\ args' = NoArgs
    /\ resp' = NoResp
    /\ iso_url' = NONE
    /\ disk_path' = NONE
    /\ cmd' = <<>>
    /\ trace' = <<>>
    /\ UNCHANGED host

ensure_admin ==
    /\ pc = "ensure_admin"
    /\ \E IsUserAnAdmin \in BOOLEAN :
        LET e == <<Event("ensure_admin", "IsUserAnAdmin", <<>>,
                         IF IsUserAnAdmin THEN "true" ELSE "false")>>
        IN  IF ~IsUserAnAdmin
            THEN Exit(e, EXIT_SYS_EXIT_MESSAGE, "failed")
            ELSE Goto(e, main_next("ensure_admin"))
    /\ UNCHANGED <<host, environ_PATH, args, resp, iso_url, disk_path, cmd>>

PIP_INSTALL == <<"python", "-m", "pip", "install", "requests">>

\* ensure_requests: "import requests" succeeds, or pip is run (check=True)
\* and any exception ends the process.
ensure_requests ==
    /\ pc = "ensure_requests"
    /\ \E imported \in BOOLEAN, rc \in {"0", "1"} :
        IF imported
        THEN /\ rc = "0"
             /\ Goto(<<>>, main_next("ensure_requests"))
        ELSE LET e == <<Event("ensure_requests", "subprocess.run", PIP_INSTALL, rc)>>
             IN  IF check_raises(rc)
                 THEN Exit(e, EXIT_SYS_EXIT_MESSAGE, "failed")
                 ELSE Goto(e, main_next("ensure_requests"))
    /\ UNCHANGED <<host, environ_PATH, args, resp, iso_url, disk_path, cmd>>

main_parse_args ==
    /\ pc = "parse_args"
    /\ \E argv \in Argvs :
        IF parse_args_error(argv)
        THEN /\ Exit(<<Event("parse_args", "parse_args", <<>>, "error")>>,
                     EXIT_ARGPARSE_ERROR, "failed")
             /\ UNCHANGED args
        ELSE /\ Goto(<<Event("parse_args", "parse_args", <<>>, "ok")>>,
                     main_next("parse_args"))
             /\ args' = parse_args(argv)
    /\ UNCHANGED <<host, environ_PATH, resp, iso_url, disk_path, cmd>>

\* The slip of bootstrapping Chocolatey whatever the lookup returned.
chocolatey_assumed_missing(choco) == TRUE

\* ensure_toolchain's test of detect_choco()'s result.
chocolatey_missing(choco) == ~Truthy(choco)

\* The slip of a lookup that puts the directory of the choco.exe it found on
\* the search path.
ensure_toolchain_exporting_path ==
    /\ pc = "ensure_toolchain"
    /\ LET e == detect_choco_events("ensure_toolchain", environ_PATH, fs, chocoWorks)
           choco == detect_choco(environ_PATH, fs, registry, chocoWorks)
       IN  /\ environ_PATH' = IF Truthy(choco) /\ choco # "choco"
                               THEN <<PathParent(choco)>> \o environ_PATH
                               ELSE environ_PATH
           /\ IF chocolatey_missing(choco)
              THEN Goto(e, "install_chocolatey")
              ELSE Goto(e, "probe_qemu")
    /\ UNCHANGED <<host, args, resp, iso_url, disk_path, cmd>>

\* ensure_toolchain, first half: is Chocolatey there?
ensure_toolchain ==
    /\ pc = "ensure_toolchain"
    /\ LET e == detect_choco_events("ensure_toolchain", environ_PATH, fs, chocoWorks)
       IN  IF chocolatey_missing(detect_choco(environ_PATH, fs, registry, chocoWorks))
           THEN Goto(e, "install_chocolatey")
           ELSE Goto(e, "probe_qemu")
    /\ UNCHANGED <<host, environ_PATH, args, resp, iso_url, disk_path, cmd>>

POWERSHELL_BOOTSTRAP ==
    <<"powershell.exe", "-NoProfile", "-ExecutionPolicy", "Bypass", "-Command",
      "iex https://community.chocolatey.org/install.ps1">>

\* install_chocolatey: the bootstrap script runs (check=True); when it exits 0
\* it has either installed a working choco at the default place or, finding
\* traces of an installation, done nothing.
install_chocolatey ==
    /\ pc = "install_chocolatey"
    /\ \E rc \in {"0", "1"}, installed \in BOOLEAN :
        LET e == Event("install_chocolatey", "subprocess.run", POWERSHELL_BOOTSTRAP, rc)
            p == Event("install_chocolatey", "environ_PATH", <<CHOCOLATEY_PATH>>, "prepended")
        IN  /\ rc # "0" => ~installed
            /\ fs' = IF installed THEN fs \cup {fallback_paths[1]} ELSE fs
            /\ chocoWorks' = (installed \/ chocoWorks)
            /\ IF check_raises(rc)
               THEN /\ Exit(<<e>>, EXIT_UNCAUGHT_EXCEPTION, "failed")
                    /\ UNCHANGED environ_PATH
               ELSE /\ environ_PATH' = <<CHOCOLATEY_PATH>> \o environ_PATH
                    /\ Goto(<<e, p>>, "probe_qemu")
    /\ UNCHANGED <<registry, args, resp, iso_url, disk_path, cmd>>

\* ensure_toolchain's test: both QEMU tools are on the search path.
qemu_tools_found(PATH, files) ==
    /\ Truthy(which(PATH, files, QEMU_EXE))
    /\ Truthy(which(PATH, files, QEMU_IMG))

\* ensure_toolchain, second half.
probe_qemu ==
    /\ pc = "probe_qemu"
    /\ LET found == qemu_tools_found(environ_PATH, fs)
           e == <<Event("ensure_toolchain", "shutil.which", <<QEMU_EXE, QEMU_IMG>>,
                        IF found THEN "found" ELSE "missing")>>
       IN  IF ~found THEN Goto(e, "install_qemu_choco")
           ELSE Goto(e, main_next("ensure_toolchain"))
    /\ UNCHANGED <<host, environ_PATH, args, resp, iso_url, disk_path, cmd>>

\* The directory the choco that runs lives in: its shims land there.
choco_home(choco_bin, PATH, files) ==
    IF choco_bin = "choco" THEN PathParent(which(PATH, files, "choco.exe"))
    ELSE PathParent(choco_bin)

\* install_qemu_choco: look Chocolatey up, put its directory first on the
\* search path, run "choco install qemu -y" (check=True), return. An install
\* that exits 0 leaves a shim for both, one or none of the two tools.
install_qemu_choco ==
    /\ pc = "install_qemu_choco"
    /\ LET choco_bin == detect_choco(environ_PATH, fs, registry, chocoWorks)
           d == detect_choco_events("install_qemu_choco", environ_PATH, fs, chocoWorks)
           newPATH == <<PathParent(choco_bin)>> \o environ_PATH
       IN  IF ~Truthy(choco_bin)
           THEN /\ Exit(d, EXIT_SYS_EXIT_MESSAGE, "failed")
                /\ UNCHANGED <<fs, environ_PATH>>
           ELSE \E rc \in {"0", "1"}, shims \in SUBSET {QEMU_EXE, QEMU_IMG} :
                LET e == d \o << Event("install_qemu_choco", "environ_PATH",
                                       <<PathParent(choco_bin)>>, "prepended"),
                                 Event("install_qemu_choco", "subprocess.run",
                                       <<choco_bin, "install", QEMU_CHOCOLATEY_NAME, "-y">>, rc) >>
                IN  /\ rc # "0" => shims = {}
                    /\ environ_PATH' = newPATH
                    /\ fs' = fs \cup { PathJoin(choco_home(choco_bin, newPATH, fs), x) : x \in shims }
                    /\ IF check_raises(rc)
                       THEN Exit(e, EXIT_UNCAUGHT_EXCEPTION, "failed")
                       ELSE Goto(e, main_next("ensure_toolchain"))
    /\ UNCHANGED <<registry, chocoWorks, args, resp, iso_url, disk_path, cmd>>

\* main: iso_path = args.iso or fetch_latest_windows_iso(); a path given on
\* the command line skips the download.
main_iso ==
    /\ pc = "iso"
    /\ IF Truthy(args.iso) THEN Goto(<<>>, main_next("iso"))
       ELSE Goto(<<>>, "fetch_page")
    /\ UNCHANGED <<host, environ_PATH, args, resp, iso_url, disk_path, cmd>>

\* The responses the download page's server may give: a page of up to
\* MaxLines lines with status 200, a short error page with 404.
PageResponses ==
    { r \in [status : {"200", "404"}, lines : Pages] :
        r.status # "200" => Len(r.lines) <= 1 }

\* The slip of not looking at the page's status.
page_status_not_looked_at(status) == FALSE

\* fetch_latest_windows_iso's test of the page's status.
page_unreachable(status) == status # "200"

\* fetch_latest_windows_iso, first half: get the download page, scan it.
fetch_page ==
    /\ pc = "fetch_page"
    /\ \/ /\ Exit(<<Event("fetch_latest_windows_iso", "session.get",
                          <<WINDOWS_ISO_DOWNLOAD_PAGE>>, "ConnectionError")>>,
                  EXIT_UNCAUGHT_EXCEPTION, "failed")
          /\ UNCHANGED <<resp, iso_url>>
       \/ \E r \in PageResponses :
          LET e == <<Event("fetch_latest_windows_iso", "session.get",
                           <<WINDOWS_ISO_DOWNLOAD_PAGE>>, r.status)>>
          IN  /\ resp' = r
              /\ IF page_unreachable(r.status)
                 THEN /\ Exit(e, EXIT_SYS_EXIT_MESSAGE, "failed")
                      /\ UNCHANGED iso_url
                 ELSE /\ iso_url' = scan_iso_url(r.lines)
                      /\ IF ~Truthy(scan_iso_url(r.lines))
                         THEN Exit(e, EXIT_SYS_EXIT_MESSAGE, "failed")
                         ELSE Goto(e, "download")
    /\ UNCHANGED <<host, environ_PATH, args, disk_path, cmd>>

\* fetch_latest_windows_iso, second half: stream the image into the working
\* directory and return its path. The file is opened only after
\* raise_for_status(); a stream that breaks leaves what was written.
download ==
    /\ pc = "download"
    /\ LET iso_path == PathJoin(CWD, PathName(iso_url))
       IN  \E out \in {"ConnectionError", "404", "200"}, complete \in BOOLEAN :
           LET g == Event("fetch_latest_windows_iso", "session.get", <<iso_url>>, out)
               w == Event("fetch_latest_windows_iso", "open_wb", <<iso_path>>,
                          IF complete THEN "written" ELSE "partial")
           IN  IF out # "200"
               THEN /\ complete
                    /\ Exit(<<g>>, EXIT_UNCAUGHT_EXCEPTION, "failed")
                    /\ UNCHANGED <<fs, args>>
               ELSE /\ fs' = fs \cup {iso_path}
                    /\ IF ~complete
                       THEN /\ Exit(<<g, w>>, EXIT_UNCAUGHT_EXCEPTION, "failed")
                            /\ UNCHANGED args
                       ELSE /\ Goto(<<g, w>>, main_next("iso"))
                            /\ args' = [args EXCEPT !.iso = iso_path]
    /\ resp' = NoResp
    /\ iso_url' = NONE
    /\ UNCHANGED <<registry, chocoWorks, environ_PATH, disk_path, cmd>>

\* subprocess.run of a bare executable name: "FileNotFoundError" when the
\* search path does not hold it, else one of the codes it may return.
run_codes(PATH, files, exe) ==
    IF ~Truthy(which(PATH, files, exe)) THEN {"FileNotFoundError"} ELSE {"0", "1"}

\* main's choice of disk_path.
main_disk_path(a) ==
    IF Truthy(a.disk_image) THEN PathStr(a.disk_image) ELSE DEFAULT_DISK_PATH

\* The slip of creating the image without looking for an existing one.
disk_image_not_looked_for(path, files) == FALSE

\* The slip of looking for the default image whatever path was given.
disk_image_exists_at_default(path, files) == DEFAULT_DISK_PATH \in files

\* create_disk_image's test: path.exists().
disk_image_exists(path, files) == path \in files

\* The slip of leaving the unit off the size.
qemu_img_create_unitless(path, size_gb) ==
    <<QEMU_IMG, "create", "-f", "qcow2", path, str(size_gb)>>

\* The qemu-img call of create_disk_image.
qemu_img_create(path, size_gb) ==
    <<QEMU_IMG, "create", "-f", "qcow2", path, str(size_gb) \o "G">>

\* main's disk_path and create_disk_image(disk_path, args.disk_size).
create_disk_image ==
    /\ pc = "create_disk_image"
    /\ LET path == main_disk_path(args)
       IN  /\ disk_path' = path
           /\ IF disk_image_exists(path, fs)
              THEN /\ Goto(<<>>, main_next("create_disk_image"))
                   /\ UNCHANGED fs
              ELSE \E rc \in run_codes(environ_PATH, fs, QEMU_IMG) :
                   LET e == <<Event("create_disk_image", "subprocess.run",
                                    qemu_img_create(path, args.disk_size), rc)>>
                   IN  IF check_raises(rc)
                       THEN /\ Exit(e, EXIT_UNCAUGHT_EXCEPTION, "failed")
                            /\ UNCHANGED fs
                       ELSE /\ Goto(e, main_next("create_disk_image"))
                            /\ fs' = fs \cup {path}
    /\ UNCHANGED <<registry, chocoWorks, environ_PATH, args, resp, iso_url, cmd>>

main_build_qemu_command ==
    /\ pc = "build_qemu_command"
    /\ cmd' = build_qemu_command(args, disk_path)
    /\ Goto(<<Event("build_qemu_command", "build", <<>>, "built")>>,
            main_next("build_qemu_command"))
    /\ UNCHANGED <<host, environ_PATH, args, resp, iso_url, disk_path>>

\* The slip of starting the emulator through the command interpreter.
launch_through_shell ==
    /\ pc = "launch"
    /\ \E rc \in run_codes(environ_PATH, fs, QEMU_EXE) :
        LET e == <<Event("main", "subprocess.run", <<"cmd.exe", "/c">> \o cmd, rc)>>
        IN  IF rc = "FileNotFoundError"
            THEN Exit(e, EXIT_UNCAUGHT_EXCEPTION, "failed")
            ELSE Exit(e, EXIT_MAIN_RETURNED, main_next("launch"))
    /\ UNCHANGED <<host, environ_PATH, args, resp, iso_url, disk_path, cmd>>

\* The slip of launching with check=True: a non-zero return code raises.
launch_checked ==
    /\ pc = "launch"
    /\ \E rc \in run_codes(environ_PATH, fs, QEMU_EXE) :
        LET e == <<Event("main", "subprocess.run", cmd, rc)>>
        IN  IF check_raises(rc)
            THEN Exit(e, EXIT_UNCAUGHT_EXCEPTION, "failed")
            ELSE Exit(e, EXIT_MAIN_RETURNED, main_next("launch"))
    /\ UNCHANGED <<host, environ_PATH, args, resp, iso_url, disk_path, cmd>>

\* main: subprocess.run(cmd), its return code ignored, then main returns.
launch ==
    /\ pc = "launch"
    /\ \E rc \in run_codes(environ_PATH, fs, QEMU_EXE) :
        LET e == <<Event("main", "subprocess.run", cmd, rc)>>
        IN  IF rc = "FileNotFoundError"
            THEN Exit(e, EXIT_UNCAUGHT_EXCEPTION, "failed")
            ELSE Exit(e, EXIT_MAIN_RETURNED, main_next("launch"))
    /\ UNCHANGED <<host, environ_PATH, args, resp, iso_url, disk_path, cmd>>

Next ==
    \/ rerun
    \/ ensure_admin
    \/ ensure_requests
    \/ main_parse_args
    \/ ensure_toolchain
    \/ install_chocolatey
    \/ probe_qemu
    \/ install_qemu_choco
    \/ main_iso
    \/ fetch_page
    \/ download
    \/ create_disk_image
    \/ main_build_qemu_command
    \/ launch

Spec == Init /\ [][Next]_vars

\* ------------------------------------------------- reading a run's trace

IsSubprocess(e) == e.op = "subprocess.run"
IsChocoV(e) == IsSubprocess(e) /\ e.argv = <<"choco", "-v">>
IsBootstrap(e) == IsSubprocess(e) /\ e.fn = "install_chocolatey"
IsChocoInstall(e) == IsSubprocess(e) /\ e.fn = "install_qemu_choco" /\ ~IsChocoV(e)
IsPipInstall(e) == IsSubprocess(e) /\ e.fn = "ensure_requests"
IsDiskCreate(e) == IsSubprocess(e) /\ e.fn = "create_disk_image"
IsLaunch(e) == IsSubprocess(e) /\ e.fn = "main"
IsPageGet(e) == e.op = "session.get" /\ e.argv = <<WINDOWS_ISO_DOWNLOAD_PAGE>>
IsIsoGet(e) == e.op = "session.get" /\ e.argv # <<WINDOWS_ISO_DOWNLOAD_PAGE>>
IsIsoWrite(e) == e.op = "open_wb"

\* An operation of a stage that reported an error: the process is not
\* elevated, a checked subprocess (pip, the Chocolatey bootstrap, choco
\* install, qemu-img create) returned non-zero or could not be started, the
\* command line was rejected, a request failed or returned a status other
\* than 200, the download broke off.
StageFailed(e) ==
    \/ e.op = "IsUserAnAdmin" /\ e.out = "false"
    \/ e.op = "parse_args" /\ e.out = "error"
    \/ (IsPipInstall(e) \/ IsBootstrap(e) \/ IsChocoInstall(e) \/ IsDiskCreate(e))
       /\ e.out # "0"
    \/ e.op = "session.get" /\ e.out # "200"
    \/ IsIsoWrite(e) /\ e.out = "partial"

\* The download page came with status 200 and none of its lines holds a
\* link to an image: the scan fails.
PageHasNoLink ==
    /\ resp.status = "200"
    /\ \A i \in 1..Len(resp.lines) : resp.lines[i] \notin {L_GOOD_A, L_GOOD_B}

\* The tool-install stage looked Chocolatey up (the last thing the run did)
\* and nothing on the host answers: not the command, not the registry's
\* directory, none of the well-known places.
ChocoNotLocated ==
    /\ trace # <<>>
    /\ IsChocoV(trace[Len(trace)])
    /\ trace[Len(trace)].fn = "install_qemu_choco"
    /\ trace[Len(trace)].out # "0"
    /\ (registry = NONE \/ REG_CHOCO \notin fs)
    /\ \A i \in 1..3 : fallback_paths[i] \notin fs

\* C1: once an operation of a stage has failed, the run does nothing more
\* (the failure is the last entry of the run's trace) and the run is in the
\* terminal state Failed, not Done.
C1_AbortOnFailure ==
    /\ \A i \in 1..Len(trace) :
          StageFailed(trace[i]) => i = Len(trace) /\ pc = "failed"
    /\ PageHasNoLink =>
          pc = "failed" /\ IsPageGet(trace[Len(trace)])
    /\ ChocoNotLocated => pc = "failed"

\* A run in which "choco install qemu -y" returned non-zero.
C1_Witness ==
    /\ pc = "failed"
    /\ \E i \in 1..Len(trace) : IsChocoInstall(trace[i]) /\ trace[i].out = "1"

\* The launch could not start the emulator.
LaunchFailed(e) == IsLaunch(e) /\ e.out = "FileNotFoundError"

AnyStageFailed ==
    \/ \E i \in 1..Len(trace) : StageFailed(trace[i]) \/ LaunchFailed(trace[i])
    \/ PageHasNoLink
    \/ ChocoNotLocated

\* C2: a run in which a stage failed (up to and including the start of the
\* emulator) has ended with a non-zero exit status; exit status 0 is
\* reported only by a run in which no stage failed; a run that ended
\* reports a status.
C2_ExitStatus ==
    /\ AnyStageFailed => exit_status # {} /\ 0 \notin exit_status
    /\ 0 \in exit_status => ~AnyStageFailed /\ pc = "done"
    /\ pc \in {"done", "failed"} <=> exit_status # {}

\* A run that ended with status 1 because qemu-img could not be started.
C2_Witness ==
    /\ exit_status = {1}
    /\ \E i \in 1..Len(trace) :
          IsDiskCreate(trace[i]) /\ trace[i].out = "FileNotFoundError"

\* The stage an effect belongs to: 1 privilege check, 2 the preliminaries
\* (requests, command line), 3 package-manager resolution and bootstrap,
\* 4 tool install, 5 ISO acquisition, 6 disk preparation, 7 command
\* assembly, 8 launch.
StageOf(e) ==
    CASE e.fn = "ensure_admin" -> 1
      [] e.fn \in {"ensure_requests", "parse_args"} -> 2
      [] e.fn = "ensure_toolchain" /\ IsChocoV(e) -> 3
      [] e.fn = "install_chocolatey" -> 3
      [] e.fn = "ensure_toolchain" /\ ~IsChocoV(e) -> 4
      [] e.fn = "install_qemu_choco" -> 4
      [] e.fn = "fetch_latest_windows_iso" -> 5
      [] e.fn = "create_disk_image" -> 6
      [] e.fn = "build_qemu_command" -> 7
      [] e.fn = "main" -> 8

HasStage(n, upto) == \E i \in 1..upto : StageOf(trace[i]) = n

\* C3: the privilege check is the first thing every run does; the stages'
\* effects follow the fixed order; an effect happens only when nothing before
\* it failed and the stages before it ran: tool install after the resolution,
\* ISO acquisition only without a usable --iso and after the tool install,
\* disk preparation after both, assembly after the disk exists, launch after
\* assembly.
C3_StageOrder ==
    /\ trace # <<>> => trace[1].op = "IsUserAnAdmin"
    /\ pc # "ensure_admin" => trace # <<>>
    /\ \A i, j \in 1..Len(trace) :
          i < j => StageOf(trace[i]) <= StageOf(trace[j]) /\ ~StageFailed(trace[i])
    /\ \A j \in 1..Len(trace) :
          /\ StageOf(trace[j]) >= 3 => trace[1].out = "true"
                                       /\ \E i \in 1..j : trace[i].op = "parse_args"
          /\ StageOf(trace[j]) >= 4 => HasStage(3, j)
          /\ StageOf(trace[j]) >= 5 => HasStage(4, j)
          /\ StageOf(trace[j]) = 8 => HasStage(7, j - 1)
    /\ pc \in {"fetch_page", "download"} => HasStage(4, Len(trace)) /\ ~Truthy(args.iso)
    /\ pc = "create_disk_image" \/ disk_path # NONE =>
          HasStage(4, Len(trace)) /\ Truthy(args.iso)
    /\ HasStage(7, Len(trace)) => disk_path \in fs /\ cmd # <<>>

\* A run that went through every stage: it downloaded the image, created the
\* disk, built the command and started the emulator.
C3_Witness ==
    /\ pc = "done"
    /\ \A n \in 1..8 : HasStage(n, Len(trace))

\* The size grammar of --ram: digits followed by M or G.
ValidRam(ram) ==
    /\ ram # NONE
    /\ Len(ram) >= 2
    /\ IsDigits(SubSeq(ram, 1, Len(ram) - 1))
    /\ SubSeq(ram, Len(ram), Len(ram)) \in {"M", "G"}

ValidVmConfig(a) == ValidRam(a.ram) /\ a.cpus > 0 /\ a.disk_size > 0

\* The index of the parse_args entry of the trace, 0 when there is none.
ParsedAt ==
    IF \E i \in 1..Len(trace) : trace[i].op = "parse_args"
    THEN CHOOSE i \in 1..Len(trace) : trace[i].op = "parse_args"
    ELSE 0

\* C4 (as claimed): a command line whose ram is not digits followed by M or
\* G, whose cpu count is not positive or whose disk size is not positive makes
\* the run fail: no subprocess is invoked after the command line is parsed,
\* the launch command is never assembled and the run does not end in Done.
C4_ConfigRejected ==
    (args # NoArgs /\ ~ValidVmConfig(args)) =>
        /\ \A i \in 1..Len(trace) : i > ParsedAt => ~IsSubprocess(trace[i])
        /\ cmd = <<>>
        /\ pc # "done"

\* The tool-install stage ran "choco install qemu -y", which returned 0, and
\* the emulator or the disk-image utility is still not on the search path.
ToolsMissingAfterInstall ==
    /\ \E i \in 1..Len(trace) : IsChocoInstall(trace[i]) /\ trace[i].out = "0"
    /\ ~qemu_tools_found(environ_PATH, fs)

\* C5 (as claimed): when the install returned and a tool is still missing
\* from the search path, neither disk creation nor launch is attempted and
\* the run does not end in Done.
C5_PostInstallProbe ==
    ToolsMissingAfterInstall =>
        /\ \A i \in 1..Len(trace) : ~IsDiskCreate(trace[i]) /\ ~IsLaunch(trace[i])
        /\ pc # "done"

\* C6: when a file exists at the disk path, create_disk_image, whatever the
\* size asked for, invokes no subprocess (the run's trace gains nothing),
\* returns normally to main's next statement and leaves the filesystem as
\* it was.
C6_ExistingDiskNoOp ==
    [][ (pc = "create_disk_image" /\ disk_path' \in fs) =>
            /\ trace' = trace
            /\ fs' = fs
            /\ pc' = "build_qemu_command"
            /\ exit_status' = {} ]_vars

\* create_disk_image has returned for a disk that exists, and this run never
\* called qemu-img: the file was there before.
C6_Witness ==
    /\ pc = "build_qemu_command"
    /\ disk_path \in fs
    /\ args.disk_size # 60
    /\ \A i \in 1..Len(trace) : ~IsDiskCreate(trace[i])

\* What each of the five checks yields on a host, in priority order: the
\* command name when a choco on the search path exits 0, the registry's
\* choco.exe when the registry names a directory that holds one, each
\* well-known place when a file is there; NONE for a check that fails.
CheckResults(PATH, files, reg, works) ==
    << IF works /\ \E i \in 1..Len(PATH) : PATH[i] \o "\\choco.exe" \in files
       THEN "choco" ELSE NONE,
       IF reg # NONE /\ (reg \o "\\bin\\choco.exe") \in files
       THEN reg \o "\\bin\\choco.exe" ELSE NONE,
       IF "C:\\ProgramData\\chocolatey\\bin\\choco.exe" \in files
       THEN "C:\\ProgramData\\chocolatey\\bin\\choco.exe" ELSE NONE,
       IF (ENV_LocalAppData \o "\\choco\\bin\\choco.exe") \in files
       THEN ENV_LocalAppData \o "\\choco\\bin\\choco.exe" ELSE NONE,
       IF (ENV_SystemDrive \o "choco\\bin\\choco.exe") \in files
       THEN ENV_SystemDrive \o "choco\\bin\\choco.exe" ELSE NONE >>

\* The result of the highest-priority check that succeeds, NONE when every
\* check fails.
HighestPriority(results) ==
    IF \A k \in 1..Len(results) : results[k] = NONE THEN NONE
    ELSE results[CHOOSE k \in 1..Len(results) :
                    /\ results[k] # NONE
                    /\ \A j \in 1..(k - 1) : results[j] = NONE]

\* Every combination of Chocolatey installations a host may hold, with the
\* search path as a run starts and as install_chocolatey leaves it.
ChocoHosts ==
    [ PATH : {<<SYS_DIR>>, <<CHOCOLATEY_PATH, SYS_DIR>>},
      files : SUBSET ({SYS_CHOCO, REG_CHOCO} \cup {fallback_paths[i] : i \in 1..3}),
      reg : {NONE, REG_INSTALL_DIR},
      works : BOOLEAN ]

C7_EveryCombination ==
    \A h \in ChocoHosts :
        detect_choco(h.PATH, h.files, h.reg, h.works)
            = HighestPriority(CheckResults(h.PATH, h.files, h.reg, h.works))

\* C7: detect_choco returns the result of the highest-priority check that
\* succeeds (direct invocation, registry, then the well-known places in list
\* order) and None only when all fail: on every combination of installations,
\* and in every run, where ensure_toolchain bootstraps exactly when the
\* lookup found nothing and install_qemu_choco runs exactly the choco the
\* lookup should have returned (the lookup ran just before that function put
\* one more directory first on the search path).
C7_ResolvePriority ==
    /\ C7_EveryCombination
    /\ pc = "install_chocolatey" =>
          HighestPriority(CheckResults(environ_PATH, fs, registry, chocoWorks)) = NONE
    /\ pc = "probe_qemu" /\ (\A i \in 1..Len(trace) : ~IsBootstrap(trace[i])) =>
          HighestPriority(CheckResults(environ_PATH, fs, registry, chocoWorks)) # NONE
    /\ \A i \in 1..Len(trace) :
          IsChocoInstall(trace[i]) =>
              trace[i].argv[1]
                  = HighestPriority(CheckResults(Tail(environ_PATH), fs, registry, chocoWorks))

\* Direct invocation and the registry both failed, the last two well-known
\* places both hold a choco.exe, and the run installed QEMU with the first
\* of the two.
C7_Witness ==
    /\ SYS_CHOCO \notin fs /\ REG_CHOCO \notin fs
    /\ fallback_paths[2] \in fs /\ fallback_paths[3] \in fs
    /\ \E i \in 1..Len(trace) :
          IsChocoInstall(trace[i]) /\ trace[i].argv[1] = fallback_paths[2]

\* C8: install_chocolatey is about to run only when detect_choco, on the
\* host as it is, returns None; the bootstrap appears at most once in a run's
\* trace, and right after the lookup of ensure_toolchain, whose direct
\* invocation did not exit 0.
C8_BootstrapOnlyIfUnresolved ==
    /\ pc = "install_chocolatey" =>
          detect_choco(environ_PATH, fs, registry, chocoWorks) = NONE
    /\ Cardinality({i \in 1..Len(trace) : IsBootstrap(trace[i])}) <= 1
    /\ \A i \in 1..Len(trace) :
          IsBootstrap(trace[i]) =>
              /\ i > 1
              /\ IsChocoV(trace[i - 1])
              /\ trace[i - 1].fn = "ensure_toolchain"
              /\ trace[i - 1].out # "0"

\* A run that bootstrapped Chocolatey and went on.
C8_Witness ==
    /\ pc = "probe_qemu"
    /\ \E i \in 1..Len(trace) : IsBootstrap(trace[i]) /\ trace[i].out = "0"

\* The lines that hold all of "software-download", "iso" and "href" and a
\* quoted https link to the download host that ends in .iso.
LinkLines ==
    { l \in Lines :
        /\ Contains(l, "software-download") /\ Contains(l, "iso") /\ Contains(l, "href")
        /\ Contains(l, "href=\"https://software-download.microsoft.com/")
        /\ Contains(l, ".iso\"") }

PageHasLink == \E i \in 1..Len(resp.lines) : resp.lines[i] \in LinkLines

C9_State ==
    /\ pc = "download" => resp.status = "200" /\ PageHasLink
    /\ \A j \in 1..Len(trace) :
          IsIsoGet(trace[j]) \/ IsIsoWrite(trace[j]) =>
              \E i \in 1..(j - 1) : IsPageGet(trace[i]) /\ trace[i].out = "200"
    /\ (resp # NoResp /\ (resp.status # "200" \/ ~PageHasLink)) =>
          /\ pc = "failed"
          /\ \A j \in 1..Len(trace) : ~IsIsoGet(trace[j]) /\ ~IsIsoWrite(trace[j])

\* C9: the image is requested and its file opened only after the page came
\* with status 200 and one of its lines held a link; when the page request
\* fails, returns another status or holds no link, the run has failed without
\* requesting the image or opening a file, and the step leaves the
\* filesystem as it was.
C9_DownloadOnlyAfterMatch ==
    [][ /\ C9_State'
        /\ (pc = "fetch_page" /\ pc' = "failed") =>
              /\ fs' = fs
              /\ \A j \in 1..Len(trace') : ~IsIsoGet(trace'[j]) /\ ~IsIsoWrite(trace'[j]) ]_vars

\* The page came with status 200 and two lines, one of them naming the
\* download host without a link the pattern accepts, and the run failed.
C9_Witness ==
    /\ pc = "failed"
    /\ resp.status = "200"
    /\ Len(resp.lines) = 2
    /\ ~PageHasLink
    /\ \E i \in 1..2 : resp.lines[i] = L_DECOY

StartsWith(t, pre) == Len(t) >= Len(pre) /\ SubSeq(t, 1, Len(pre)) = pre

\* Where a network-backend group starts in a command: -netdev followed by a
\* user-mode or a bridge backend.
UserBackendAt(c) ==
    {i \in 1..(Len(c) - 1) : c[i] = "-netdev" /\ StartsWith(c[i + 1], "user,")}
BridgeBackendAt(c) ==
    {i \in 1..(Len(c) - 1) : c[i] = "-netdev" /\ StartsWith(c[i + 1], "bridge,")}

NetExclusive(c, net) ==
    /\ Cardinality(UserBackendAt(c) \cup BridgeBackendAt(c)) = 1
    /\ net = "user" => UserBackendAt(c) # {} /\ BridgeBackendAt(c) = {}
    /\ net = "bridge" => BridgeBackendAt(c) # {} /\ UserBackendAt(c) = {}

\* Valid configurations: a ram of digits and a unit, 1 to MaxCpus CPUs, an
\* ISO given or downloaded, the default or a given disk, either network mode.
VmConfigs ==
    [ ram : {"8G", "4096M"},
      cpus : 1..MaxCpus,
      disk_size : {60},
      iso : {"C:\\win.iso", PathJoin(CWD, "Win11_x64.iso")},
      disk_image : {NONE, "D:\\disk.qcow2"},
      net : {"user", "bridge"} ]

C10_EveryConfig ==
    \A a \in VmConfigs :
        NetExclusive(build_qemu_command(a, main_disk_path(a)), a.net)

\* C10: the command build_qemu_command returns holds exactly one
\* network-backend group, the user-mode one for net=user and the bridge one
\* for net=bridge, never the other: for every valid configuration, and for
\* the command of every run.
C10_NetModeExclusive ==
    /\ C10_EveryConfig
    /\ cmd # <<>> => NetExclusive(cmd, args.net)

\* A run built its command for bridged networking.
C10_Witness ==
    /\ pc = "launch"
    /\ args.net = "bridge"
    /\ ValidVmConfig(args)
    /\ BridgeBackendAt(cmd) # {}

\* s is the decimal numeral of n: digits without a leading zero that read
\* back as n, after a minus sign for a negative n.
IsDecimalOf(s, n) ==
    IF n < 0
    THEN /\ Len(s) > 1
         /\ SubSeq(s, 1, 1) = "-"
         /\ IsDigits(SubSeq(s, 2, Len(s)))
         /\ SubSeq(s, 2, 2) # "0"
         /\ DigitsVal(SubSeq(s, 2, Len(s))) = 0 - n
    ELSE /\ IsDigits(s)
         /\ (Len(s) > 1 => SubSeq(s, 1, 1) # "0")
         /\ DigitsVal(s) = n

\* argv is a disk-creation command for path and size_gb: the disk-image
\* utility, subcommand create, format qcow2, the path, the decimal size
\* followed by G.
IsCreateCommand(argv, path, size_gb) ==
    /\ Len(argv) = 6
    /\ SubSeq(argv, 1, 5) = <<"qemu-img.exe", "create", "-f", "qcow2", path>>
    /\ EndsWith(argv[6], "G")
    /\ IsDecimalOf(SubSeq(argv[6], 1, Len(argv[6]) - 1), size_gb)

C11_EverySize ==
    /\ \A n \in (0 - MaxSizeGb)..MaxSizeGb :
          IsCreateCommand(qemu_img_create("D:\\disk.qcow2", n), "D:\\disk.qcow2", n)
    /\ qemu_img_create(DEFAULT_DISK_PATH, 60)[6] = "60G"

\* C11: on a path where no file exists, create_disk_image invokes the
\* disk-image utility exactly once (the run's trace gains that one call),
\* with subcommand create, format qcow2, the path and the decimal size
\* followed by G (60 gives 60G), for every size; when the call does not
\* return 0 the run fails, otherwise it goes on with the file in place.
C11_DiskCreateArgv ==
    [][ /\ C11_EverySize
        /\ (pc = "create_disk_image" /\ disk_path' \notin fs) =>
              /\ Len(trace') = Len(trace) + 1
              /\ SubSeq(trace', 1, Len(trace)) = trace
              /\ \A i \in 1..Len(trace) : ~IsDiskCreate(trace[i])
              /\ IsDiskCreate(trace'[Len(trace')])
              /\ IsCreateCommand(trace'[Len(trace')].argv, disk_path', args.disk_size)
              /\ trace'[Len(trace')].out # "0" =>
                    pc' = "failed" /\ exit_status' = {1} /\ fs' = fs
              /\ trace'[Len(trace')].out = "0" =>
                    pc' = "build_qemu_command" /\ disk_path' \in fs' ]_vars

\* A run created the default disk with a size argument of 60G.
C11_Witness ==
    /\ pc = "build_qemu_command"
    /\ disk_path = DEFAULT_DISK_PATH
    /\ \E i \in 1..Len(trace) :
          IsDiskCreate(trace[i]) /\ trace[i].argv[6] = "60G" /\ trace[i].out = "0"

\* The disk-creation calls of the run so far.
DiskCreates(t) == {i \in 1..Len(t) : IsDiskCreate(t[i])}

\* The step made a disk-creation call.
DiskCreateStep ==
    /\ Len(trace') > Len(trace)
    /\ IsDiskCreate(trace'[Len(trace')])

\* C12: a run calls disk creation at most once; no step of any run, and no
\* start of a later run, removes a file from the host, so a disk image that
\* exists keeps existing; and disk creation is never called for a path at
\* which a file exists, in the run that made it or in any later one.
C12_DiskNeverDeleted ==
    [][ /\ Cardinality(DiskCreates(trace')) <= 1
        /\ fs \subseteq fs'
        /\ disk_path # NONE /\ disk_path \in fs /\ pc' # "ensure_admin" =>
              disk_path' = disk_path /\ disk_path' \in fs'
        /\ DiskCreateStep => trace'[Len(trace')].argv[5] \notin fs ]_vars

\* Earlier runs created the default image and the one at D:\disk.qcow2; a
\* later run, given D:/disk.qcow2, finished without calling disk creation
\* and both images are still there.
C12_Witness ==
    /\ pc = "done"
    /\ DEFAULT_DISK_PATH \in fs
    /\ args.disk_image = "D:/disk.qcow2"
    /\ disk_path \in fs
    /\ DiskCreates(trace) = {}

\* The tool-install stage has begun: its probe of the search path is in the
\* trace at position i.
ToolInstallBegunAt(i) == trace[i].op = "shutil.which"

\* C13 (as claimed): once the resolution has completed and the tool-install
\* stage has begun, the run does not look Chocolatey up again: no
\* "choco -v" follows the stage's probe in the run's trace.
C13_NoLookupReentry ==
    \A i, j \in 1..Len(trace) :
        ToolInstallBegunAt(i) /\ i < j => ~IsChocoV(trace[j])

\* The writes to os.environ["PATH"] of the run so far.
PathWrites == {i \in 1..Len(trace) : trace[i].op = "environ_PATH"}

\* C14 (as claimed): at most one operation of a run modifies the search
\* path, and a modification only puts a directory in front: the path is the
\* one the run started with, after one directory per write.
C14_SinglePathWriter ==
    /\ Cardinality(PathWrites) <= 1
    /\ Len(environ_PATH) = Cardinality(PathWrites) + 1
    /\ environ_PATH[Len(environ_PATH)] = SYS_DIR

\* The run has not bootstrapped Chocolatey.
NoBootstrap == \A i \in 1..Len(trace) : ~IsBootstrap(trace[i])

\* The lookups of the run so far: the positions of "choco -v" in the trace.
Lookups(t) == {i \in 1..Len(t) : IsChocoV(t[i])}

\* C15: detect_choco called twice in succession, no install in between and
\* the host unchanged, returns the same both times, and the call changes
\* neither the host nor the search path. The lookup of ensure_toolchain
\* leaves filesystem, registry, choco and search path as they were, and a
\* second call right after it returns what the first returned (the branch
\* taken tells which). When no bootstrap came in between, the lookup of
\* install_qemu_choco sees the direct invocation end as it did for
\* ensure_toolchain, finds a Chocolatey again and runs the one a call before
\* the step returns.
C15_ResolveIdempotent ==
    [][ /\ pc = "ensure_toolchain" =>
              /\ host' = host
              /\ environ_PATH' = environ_PATH
              /\ detect_choco(environ_PATH', fs', registry', chocoWorks')
                    = detect_choco(environ_PATH, fs, registry, chocoWorks)
              /\ pc' = "install_chocolatey" <=>
                    detect_choco(environ_PATH', fs', registry', chocoWorks') = NONE
        /\ (pc = "install_qemu_choco" /\ NoBootstrap) =>
              /\ Cardinality(Lookups(trace')) = 2
              /\ \A i, j \in Lookups(trace') : trace'[i].out = trace'[j].out
              /\ IsChocoInstall(trace'[Len(trace')])
              /\ trace'[Len(trace')].argv[1]
                    = detect_choco(environ_PATH, fs, registry, chocoWorks) ]_vars

\* A choco on the search path exits non-zero and the registry names a good
\* one: both lookups of the run saw the direct invocation fail and the run
\* installed QEMU with the registry's choco.exe.
C15_Witness ==
    /\ NoBootstrap
    /\ Cardinality(Lookups(trace)) = 2
    /\ \A i \in Lookups(trace) : trace[i].out = "1"
    /\ IsChocoInstall(trace[Len(trace)])
    /\ trace[Len(trace)].argv[1] = REG_CHOCO

\* The positions of token tok in command c.
TokenAt(c, tok) == {i \in 1..Len(c) : c[i] = tok}

\* Flag occurs exactly once in c, followed by a value that satisfies ok.
FlagOnce(c, flag, ok(_)) ==
    /\ Cardinality(TokenAt(c, flag)) = 1
    /\ \A i \in TokenAt(c, flag) : i < Len(c) /\ ok(c[i + 1])

\* Command c holds each required token exactly once for ram, cpus, disk,
\* iso: -m ram, -smp cpus in decimal, one -drive naming the disk with format
\* qcow2, one -cdrom iso, one -netdev backend with the one NIC attached to it.
RequiredOnce(c, ram, cpus, disk, iso) ==
    /\ FlagOnce(c, "-m", LAMBDA v : v = ram)
    /\ FlagOnce(c, "-smp", LAMBDA v : IsDecimalOf(v, cpus))
    /\ FlagOnce(c, "-drive",
                LAMBDA v : /\ StartsWith(v, "file=" \o disk)
                           /\ EndsWith(v, ",format=qcow2")
                           /\ Len(v) = Len(disk) + 18)
    /\ Cardinality({i \in 1..Len(c) : StartsWith(c[i], "file=")}) = 1
    /\ FlagOnce(c, "-cdrom", LAMBDA v : v = iso)
    /\ FlagOnce(c, "-netdev",
                LAMBDA v : StartsWith(v, "user,id=net0") \/ StartsWith(v, "bridge,id=net0"))
    /\ Cardinality({i \in 1..(Len(c) - 1) :
                        c[i] = "-device" /\ EndsWith(c[i + 1], "netdev=net0")}) = 1
    /\ Cardinality({i \in 1..Len(c) : EndsWith(c[i], "netdev=net0")}) = 1

C16_EveryConfig ==
    \A a \in VmConfigs :
        RequiredOnce(build_qemu_command(a, main_disk_path(a)),
                     a.ram, a.cpus,
                     IF a.disk_image = NONE THEN CWD \o "\\win11_vm.qcow2" ELSE a.disk_image,
                     a.iso)

\* C16: for every valid configuration the command build_qemu_command
\* returns holds each required token exactly once: -m and the ram, -smp and
\* the CPU count, one drive token naming the disk path with format qcow2,
\* -cdrom and the ISO path, one network backend with its NIC; so does the
\* command of every run whose configuration is valid.
C16_EachTokenOnce ==
    /\ C16_EveryConfig
    /\ (cmd # <<>> /\ ValidVmConfig(args)) =>
          RequiredOnce(cmd, args.ram, args.cpus, disk_path, args.iso)

\* The command of the literal scenario: 8G, 4 CPUs, C:\win.iso,
\* D:\disk.qcow2, user-mode networking.
C16_Witness ==
    /\ pc = "launch"
    /\ args.ram = "8G" /\ args.cpus = 4 /\ args.net = "user"
    /\ args.iso = "C:\\win.iso" /\ disk_path = "D:\\disk.qcow2"
    /\ \E i \in 1..Len(cmd) : cmd[i] = "file=D:\\disk.qcow2,format=qcow2"
    /\ \E i \in 1..(Len(cmd) - 1) : cmd[i] = "-smp" /\ cmd[i + 1] = "4"

\* The step made a network request or opened the image file.
AcquisitionStep ==
    /\ Len(trace') > Len(trace)
    /\ \E i \in (Len(trace) + 1)..Len(trace') :
          trace'[i].op \in {"session.get", "open_wb"}

\* C17 (as claimed): main goes to fetch_latest_windows_iso exactly when no
\* --iso was given (args.iso is None); every network request and every
\* write of an image is made with no --iso given; with an --iso given the
\* run makes no request, keeps args.iso and puts it after -cdrom.
C17_AcquireIffNoIso ==
    [][ /\ pc = "iso" => (pc' = "fetch_page" <=> args.iso = NONE)
        /\ AcquisitionStep => args.iso = NONE
        /\ (pc = "iso" /\ args.iso # NONE) =>
              pc' = "create_disk_image" /\ trace' = trace /\ args' = args
        /\ (pc = "build_qemu_command"
             /\ \A i \in 1..Len(trace) : trace[i].op # "session.get") =>
              \E i \in 1..(Len(cmd') - 1) : cmd'[i] = "-cdrom" /\ cmd'[i + 1] = args.iso
      ]_vars

\* The launches and the command assemblies of the run so far.
Launches == {i \in 1..Len(trace) : IsLaunch(trace[i])}
Builds == {i \in 1..Len(trace) : trace[i].op = "build"}

\* C18: a run starts the emulator at most once, only after the command was
\* built (once), and with exactly the token sequence build_qemu_command
\* returned: from the build on, cmd is what the builder makes of the run's
\* configuration, no later step changes it, and the launch passes it as it is.
C18_LaunchOnce ==
    [][ /\ Cardinality(Launches') <= 1
        /\ Cardinality(Builds') <= 1
        /\ \A j \in Launches' :
              /\ \E i \in Builds' : i < j
              /\ trace'[j].argv = cmd'
              /\ cmd' = build_qemu_command(args', disk_path')
              /\ trace'[j].argv[1] = "qemu-system-x86_64.exe"
        /\ (Builds # {} /\ pc' # "ensure_admin") => cmd' = cmd
        /\ (Builds = {} /\ pc # "build_qemu_command") => cmd' = <<>>
        /\ pc = "launch" => Launches = {} /\ Cardinality(Launches') = 1 ]_vars

\* A run that ended after starting the emulator, once, with its command.
C18_Witness ==
    /\ pc = "done"
    /\ Cardinality(Launches) = 1
    /\ Builds # {}
    /\ \A j \in Launches : trace[j].argv = cmd /\ Len(cmd) = 24

\* The emulator was started and returned: the launch has a return code.
ChildReturned(e) == IsLaunch(e) /\ e.out \in {"0", "1"}

\* C19: a run in which the emulator was started has ended in Done with
\* exit status 0, whatever the child returned, the launch being the last
\* thing it did; a launch without a return code is one that found no
\* emulator on the search path; and only a run that started the emulator
\* ends in Done.
C19_ChildStatusIgnored ==
    /\ \A i \in 1..Len(trace) :
          ChildReturned(trace[i]) =>
              /\ i = Len(trace)
              /\ pc = "done"
              /\ exit_status = {0}
    /\ \A i \in 1..Len(trace) :
          IsLaunch(trace[i]) /\ ~ChildReturned(trace[i]) =>
              /\ trace[i].out = "FileNotFoundError"
              /\ which(environ_PATH, fs, QEMU_EXE) = NONE
    /\ pc = "done" => \E i \in 1..Len(trace) : ChildReturned(trace[i])

\* The emulator returned 1 and the run ended with status 0.
C19_Witness ==
    /\ pc = "done"
    /\ exit_status = {0}
    /\ ChildReturned(trace[Len(trace)])
    /\ trace[Len(trace)].out = "1"

====
